---- MODULE Spec2Model ----
(***************************************************************************)
(* Model of src-tauri/src/lib.rs of ai-quick-access: the settings store,   *)
(* the autostart synchronizer, the placement engine, the "main" window     *)
(* lifecycle, the global shortcut handler and the tray handlers.           *)
(*                                                                         *)
(* Conventions.                                                            *)
(*  - Handlers that Tauri runs on the main thread (the setup closure, the  *)
(*    shortcut and tray callbacks and the commands declared with a plain   *)
(*    `fn`) are one action each: they run to completion.                   *)
(*  - An OS or library call that returns Err is an input of the action     *)
(*    (a fault name); a failed call has no effect on the state.            *)
(*  - Pixel coordinates are the integers the code computes with (i32).     *)
(***************************************************************************)
EXTENDS Integers, Sequences, FiniteSets, TLC

VARIABLES
    phase,          \* "init" before the setup closure ran, then "running" / "exited"
    file,           \* configs.json: [exists, contents]
    registration,   \* the OS login-launch registration (autolaunch.is_enabled())
    pending,        \* save_settings invocations issued by the front-end, not yet run
    sync,           \* what the last sync_launch_at_startup call did
    ret,            \* the result of the last command or of the startup load
    hist,           \* history: last value written, whether every step so far succeeded
    windows,        \* number of webview windows per label
    main,           \* attributes of the window get_webview_window("main") returns
    settingsWin,    \* attributes of the "settings" window
    built,          \* how many "main" windows this process has constructed
    monitors,       \* the monitors in OS-reported order
    claimed,        \* the shortcuts another application holds: register() fails for them
    registered,     \* the global shortcuts registered with the OS
    platform,       \* target_os of the build: "macos", "windows" or "linux"
    last,           \* what the last step did to the windows (a trace, for the properties)
    job             \* the async window command in flight (resize_window, reset_window)

vars == <<phase, file, registration, pending, sync, ret, hist,
          windows, main, settingsWin, built, monitors, claimed, registered, platform,
          last, job>>

settingsVars == <<file, registration, pending, sync, ret, hist>>
windowVars == <<windows, main, settingsWin, built, monitors, claimed, registered,
                platform, last>>

----------------------------------------------------------------------------
(* Bounds of the model *)

MaxPending == 2
MaxMonitors == 2
MaxCommands == 2

----------------------------------------------------------------------------
(* Settings (lib.rs 15-28) and its JSON form *)

NoShortcuts == [k \in {} |-> ""]

DefaultShortcuts ==
    [k \in {"h", "f", "o"} |->
        CASE k = "h" -> "google/gemini-3-pro-preview"
          [] k = "f" -> "google/gemini-3-flash-preview"
          [] k = "o" -> "openai/gpt-oss-120b"]

DefaultPrompt ==
    "Keep your responses as concise, precise, to the point.\nAnswer the question in as few words as possible.\nNo Yapping."

\* the record load_settings returns when configs.json does not exist
DefaultSettings ==
    [api_key         |-> "",
     selected_model  |-> "openai/gpt-oss-120b",
     dark_mode       |-> TRUE,
     auto_start      |-> FALSE,
     system_prompt   |-> DefaultPrompt,
     model_shortcuts |-> DefaultShortcuts,
     send_on_enter   |-> FALSE]

\* #[derive(Default)]: what a #[serde(default)] field gets when the key is missing
SerdeDefault ==
    [api_key         |-> "",
     selected_model  |-> "",
     dark_mode       |-> FALSE,
     auto_start      |-> FALSE,
     system_prompt   |-> "",
     model_shortcuts |-> NoShortcuts,
     send_on_enter   |-> FALSE]

\* the Settings values the front-end passes to save_settings in this model
Settings ==
    { DefaultSettings,
      [api_key         |-> "sk-or-1",
       selected_model  |-> "google/gemini-3-flash-preview",
       dark_mode       |-> FALSE,
       auto_start      |-> TRUE,
       system_prompt   |-> "",
       model_shortcuts |-> NoShortcuts,
       send_on_enter   |-> TRUE],
      [api_key         |-> "sk-or-1",
       selected_model  |-> "openai/gpt-oss-120b",
       dark_mode       |-> TRUE,
       auto_start      |-> FALSE,
       system_prompt   |-> "Be brief.",
       model_shortcuts |-> [k \in {"g"} |-> "google/gemini-3-pro-preview"],
       send_on_enter   |-> FALSE] }

\* A JSON value is <<type, value>>; a JSON object is a sequence of members
\* [name, value] in the order they are written.
JStr(s) == <<"string", s>>
JBool(b) == <<"bool", b>>
JObj(ms) == <<"object", ms>>

Member(n, v) == [name |-> n, value |-> v]

RECURSIVE MapMembers(_, _)
\* serde_json writes a HashMap<String, String> as an object, one member per
\* entry, in the map's (arbitrary) iteration order
MapMembers(m, keys) ==
    IF keys = {} THEN <<>>
    ELSE LET k == CHOOSE x \in keys : TRUE
         IN  <<Member(k, JStr(m[k]))>> \o MapMembers(m, keys \ {k})

\* serde_json::to_string_pretty(&settings) under #[serde(rename_all = "camelCase")]
to_string_pretty(s) ==
    << Member("apiKey",         JStr(s.api_key)),
       Member("selectedModel",  JStr(s.selected_model)),
       Member("darkMode",       JBool(s.dark_mode)),
       Member("autoStart",      JBool(s.auto_start)),
       Member("systemPrompt",   JStr(s.system_prompt)),
       Member("modelShortcuts", JObj(MapMembers(s.model_shortcuts, DOMAIN s.model_shortcuts))),
       Member("sendOnEnter",    JBool(s.send_on_enter)) >>

Has(doc, n) == \E i \in 1..Len(doc) : doc[i].name = n

\* the value of the last member named n (serde keeps the last for a map;
\* for a struct field a repeated key is an error, see from_str)
Get(doc, n) ==
    LET i == CHOOSE j \in 1..Len(doc) :
                 /\ doc[j].name = n
                 /\ \A k \in (j+1)..Len(doc) : doc[k].name # n
    IN  doc[i].value

Count(doc, n) == Cardinality({i \in 1..Len(doc) : doc[i].name = n})

\* a JSON object read back as HashMap<String, String>
ParseMap(ms) == [k \in {ms[i].name : i \in 1..Len(ms)} |-> Get(ms, k)[2]]

MapOk(v) ==
    /\ v[1] = "object"
    /\ \A i \in 1..Len(v[2]) : v[2][i].value[1] = "string"

\* a field without #[serde(default)] must be present, once, with its type
Required(doc, n, t) == Count(doc, n) = 1 /\ Get(doc, n)[1] = t

\* a #[serde(default)] field may be missing
Optional(doc, n, t) ==
    \/ ~Has(doc, n)
    \/ /\ Count(doc, n) = 1
       /\ IF t = "object" THEN MapOk(Get(doc, n)) ELSE Get(doc, n)[1] = t

\* serde_json::from_str::<Settings>(&contents)
from_str(doc) ==
    IF /\ Required(doc, "apiKey", "string")
       /\ Required(doc, "selectedModel", "string")
       /\ Required(doc, "darkMode", "bool")
       /\ Required(doc, "autoStart", "bool")
       /\ Optional(doc, "systemPrompt", "string")
       /\ Optional(doc, "modelShortcuts", "object")
       /\ Optional(doc, "sendOnEnter", "bool")
    THEN [ok |-> TRUE,
          value |->
            [api_key         |-> Get(doc, "apiKey")[2],
             selected_model  |-> Get(doc, "selectedModel")[2],
             dark_mode       |-> Get(doc, "darkMode")[2],
             auto_start      |-> Get(doc, "autoStart")[2],
             system_prompt   |-> IF Has(doc, "systemPrompt")
                                 THEN Get(doc, "systemPrompt")[2]
                                 ELSE SerdeDefault.system_prompt,
             model_shortcuts |-> IF Has(doc, "modelShortcuts")
                                 THEN ParseMap(Get(doc, "modelShortcuts")[2])
                                 ELSE SerdeDefault.model_shortcuts,
             send_on_enter   |-> IF Has(doc, "sendOnEnter")
                                 THEN Get(doc, "sendOnEnter")[2]
                                 ELSE SerdeDefault.send_on_enter],
          error |-> ""]
    ELSE [ok |-> FALSE, value |-> SerdeDefault,
          error |-> "Failed to parse config file"]

----------------------------------------------------------------------------
(* Settings store and autostart synchronizer (lib.rs 30-105) *)

\* the calls of the settings store and of setup that can return Err
SaveFaults == {"config_dir", "create_dir", "serialize", "write",
               "is_enabled", "enable", "disable"}
LoadFaults == {"config_dir", "read"}

Ok == [ok |-> TRUE, error |-> ""]
Err(msg) == [ok |-> FALSE, error |-> msg]

\* dirs::config_dir() is None when F holds "config_dir"
get_config_path(F) ==
    IF "config_dir" \in F THEN Err("Could not find config directory") ELSE Ok

ensure_config_dir(F) ==
    IF ~get_config_path(F).ok THEN get_config_path(F)
    ELSE IF "create_dir" \in F THEN Err("Failed to create config directory")
    ELSE Ok

NoSync ==
    [by |-> "none", desired |-> FALSE, before |-> FALSE, read |-> FALSE,
     call |-> "none", ok |-> FALSE, after |-> FALSE, error |-> ""]

\* the outcome of a sync that read the registration and made `call`
SyncResult(reg, enable, call, F) ==
    [by |-> "none", desired |-> enable, before |-> reg, read |-> TRUE,
     call |-> call, ok |-> call \notin F,
     after |-> IF call = "none" \/ call \in F THEN reg ELSE enable,
     error |-> IF call \notin F THEN ""
               ELSE IF call = "enable" THEN "Failed to enable launch at startup"
               ELSE "Failed to disable launch at startup"]

SyncReadFailed(reg, enable) ==
    [NoSync EXCEPT !.desired = enable, !.before = reg, !.after = reg,
                   !.error = "Failed to read launch at startup state"]

\* a plausible slip: toggles without comparing with the current state
sync_unconditional(reg, enable, F) ==
    IF "is_enabled" \in F THEN SyncReadFailed(reg, enable)
    ELSE IF enable THEN SyncResult(reg, enable, "enable", F)
    ELSE SyncResult(reg, enable, "disable", F)

\* sync_launch_at_startup(app, enable) on registration reg: the record of what
\* it read, which mutating call it made, its result and the registration after
sync_launch_at_startup(reg, enable, F) ==
    IF "is_enabled" \in F THEN SyncReadFailed(reg, enable)
    ELSE IF enable /\ ~reg THEN SyncResult(reg, enable, "enable", F)
    ELSE IF ~enable /\ reg THEN SyncResult(reg, enable, "disable", F)
    ELSE SyncResult(reg, enable, "none", F)

NoFile == [exists |-> FALSE, contents |-> <<>>]

\* load_settings() on the file f: Ok(value) or Err(error)
load_settings(f, F) ==
    IF ~get_config_path(F).ok
    THEN [ok |-> FALSE, value |-> SerdeDefault, error |-> get_config_path(F).error]
    ELSE IF ~f.exists
    THEN [ok |-> TRUE, value |-> DefaultSettings, error |-> ""]
    ELSE IF "read" \in F
    THEN [ok |-> FALSE, value |-> SerdeDefault, error |-> "Failed to read config file"]
    ELSE from_str(f.contents)

\* a plausible slip: the file is written but the autostart step is left out
save_without_sync(f, reg, settings, F) ==
    IF ~ensure_config_dir(F).ok \/ "serialize" \in F \/ "write" \in F
    THEN [ok |-> FALSE, file |-> f, sync |-> NoSync, wrote |-> FALSE,
          error |-> "Failed to save"]
    ELSE [ok |-> TRUE,
          file |-> [exists |-> TRUE, contents |-> to_string_pretty(settings)],
          sync |-> [NoSync EXCEPT !.before = reg, !.after = reg],
          wrote |-> TRUE, error |-> ""]

\* a plausible slip: systemPrompt is written under its snake_case name
save_snake_case(f, reg, settings, F) ==
    LET doc == to_string_pretty(settings)
        bad == [i \in 1..Len(doc) |->
                   IF doc[i].name = "systemPrompt"
                   THEN Member("system_prompt", doc[i].value) ELSE doc[i]]
        s == [sync_launch_at_startup(reg, settings.auto_start, F)
                 EXCEPT !.by = "save_settings"]
    IN  IF ~ensure_config_dir(F).ok \/ "serialize" \in F \/ "write" \in F
        THEN [ok |-> FALSE, file |-> f, sync |-> NoSync, wrote |-> FALSE,
              error |-> "Failed to save"]
        ELSE [ok |-> s.ok, file |-> [exists |-> TRUE, contents |-> bad],
              sync |-> s, wrote |-> TRUE, error |-> s.error]

\* a plausible slip: the autostart step runs before the file is written
save_sync_first(f, reg, settings, F) ==
    IF ~ensure_config_dir(F).ok
    THEN [ok |-> FALSE, file |-> f, sync |-> NoSync, wrote |-> FALSE,
          error |-> ensure_config_dir(F).error]
    ELSE IF "serialize" \in F
    THEN [ok |-> FALSE, file |-> f, sync |-> NoSync, wrote |-> FALSE,
          error |-> "Failed to serialize settings"]
    ELSE LET s == [sync_launch_at_startup(reg, settings.auto_start, F)
                      EXCEPT !.by = "save_settings"]
         IN  IF ~s.ok
             THEN [ok |-> FALSE, file |-> f, sync |-> s, wrote |-> FALSE,
                   error |-> s.error]
             ELSE IF "write" \in F
             THEN [ok |-> FALSE, file |-> f, sync |-> s, wrote |-> FALSE,
                   error |-> "Failed to write config file"]
             ELSE [ok |-> TRUE,
                   file |-> [exists |-> TRUE, contents |-> to_string_pretty(settings)],
                   sync |-> s, wrote |-> TRUE, error |-> ""]

\* save_settings(app, settings) on file f and registration reg: its result,
\* the file after, and the autostart call it made (sync.by = "none": not reached)
save_settings(f, reg, settings, F) ==
    IF ~ensure_config_dir(F).ok
    THEN [ok |-> FALSE, file |-> f, sync |-> NoSync, wrote |-> FALSE,
          error |-> ensure_config_dir(F).error]
    ELSE IF "serialize" \in F
    THEN [ok |-> FALSE, file |-> f, sync |-> NoSync, wrote |-> FALSE,
          error |-> "Failed to serialize settings"]
    ELSE IF "write" \in F
    THEN [ok |-> FALSE, file |-> f, sync |-> NoSync, wrote |-> FALSE,
          error |-> "Failed to write config file"]
    ELSE LET s == [sync_launch_at_startup(reg, settings.auto_start, F)
                      EXCEPT !.by = "save_settings"]
         IN  [ok |-> s.ok,
              file |-> [exists |-> TRUE, contents |-> to_string_pretty(settings)],
              sync |-> s, wrote |-> TRUE, error |-> s.error]

NoRet == [cmd |-> "none", ok |-> FALSE, value |-> SerdeDefault, error |-> ""]

NoHist == [wrote |-> FALSE, written |-> SerdeDefault, allOk |-> TRUE,
           overlap |-> FALSE]

\* the front-end invokes save_settings: the request waits for the main thread
invoke_save_settings ==
    /\ phase = "running"
    /\ Cardinality(pending) < MaxPending
    /\ \E s \in Settings \ pending : pending' = pending \cup {s}
    /\ UNCHANGED <<phase, file, registration, sync, ret, hist>>
    /\ UNCHANGED windowVars
    /\ UNCHANGED job

\* the main thread runs one pending save_settings command to completion
save_settings_cmd ==
    /\ phase = "running"
    /\ \E s \in pending, F \in {{}} \cup {{x} : x \in SaveFaults} :
         LET r == save_settings(file, registration, s, F)
         IN  /\ pending' = pending \ {s}
             /\ file' = r.file
             /\ registration' = IF r.sync.by = "none" THEN registration ELSE r.sync.after
             /\ sync' = IF r.sync.by = "none" THEN sync ELSE r.sync
             /\ ret' = [cmd |-> "save_settings", ok |-> r.ok, value |-> s, error |-> r.error]
             /\ hist' = [wrote   |-> hist.wrote \/ r.wrote,
                         written |-> IF r.wrote THEN s ELSE hist.written,
                         allOk   |-> hist.allOk /\ r.ok,
                         overlap |-> hist.overlap \/
                                     \E o \in pending : o.auto_start # s.auto_start]
    /\ UNCHANGED phase
    /\ UNCHANGED windowVars
    /\ UNCHANGED job

\* a plausible slip: a load that persists the defaults when the file is missing
load_and_create ==
    /\ phase = "running"
    /\ \E F \in {{}} \cup {{x} : x \in LoadFaults} :
         LET r == load_settings(file, F)
         IN  /\ ret' = [cmd |-> "load_settings", ok |-> r.ok, value |-> r.value, error |-> r.error]
             /\ file' = IF r.ok /\ ~file.exists
                        THEN [exists |-> TRUE, contents |-> to_string_pretty(r.value)]
                        ELSE file
    /\ UNCHANGED <<phase, registration, pending, sync, hist>>
    /\ UNCHANGED windowVars
    /\ UNCHANGED job

\* the load_settings command
load_settings_cmd ==
    /\ phase = "running"
    /\ \E F \in {{}} \cup {{x} : x \in LoadFaults} :
         LET r == load_settings(file, F)
         IN  ret' = [cmd |-> "load_settings", ok |-> r.ok, value |-> r.value, error |-> r.error]
    /\ UNCHANGED <<phase, file, registration, pending, sync, hist>>
    /\ UNCHANGED windowVars
    /\ UNCHANGED job

----------------------------------------------------------------------------
(* Monitors, mouse and the placement engine (lib.rs 186-235) *)

Monitor(x, y, w, h, s) == [pos |-> <<x, y>>, size |-> <<w, h>>, scale_factor |-> s]

\* the monitors of this model: a primary one, a neighbour to its right, and a
\* mirror of the primary at a lower resolution (its rectangle overlaps it)
Primary == Monitor(0, 0, 1920, 1080, 1)

MonitorSet ==
    { Primary,
      Monitor(1920, 0, 1280, 720, 2),
      Monitor(0, 0, 1280, 720, 1) }

RECURSIVE SeqsUpTo(_, _)
SeqsUpTo(S, n) ==
    IF n = 0 THEN {<<>>}
    ELSE LET shorter == SeqsUpTo(S, n - 1)
         IN  shorter \cup {Append(q, e) : q \in shorter, e \in S}

\* the lists app.available_monitors() can report: any order, no monitor twice
MonitorConfigs ==
    {q \in SeqsUpTo(MonitorSet, MaxMonitors) :
        \A i, j \in 1..Len(q) : i # j => q[i] # q[j]}

\* Mouse::get_mouse_position(): Mouse::Error or Mouse::Position
MouseError == [error |-> TRUE, x |-> 0, y |-> 0]
MouseAt(x, y) == [error |-> FALSE, x |-> x, y |-> y]

\* the last point inside a monitor and the first points past its right and
\* bottom edges
CornerPoints(m) ==
    { MouseAt(m.pos[1] + m.size[1] - 1, m.pos[2] + m.size[2] - 1),
      MouseAt(m.pos[1] + m.size[1], m.pos[2]),
      MouseAt(m.pos[1], m.pos[2] + m.size[2]) }

\* what the mouse query can return with the monitors mons attached: an error,
\* a point left of and above every monitor, or a corner point of a monitor
MouseReadings(mons) ==
    {MouseError, MouseAt(-1, -1)}
        \cup UNION {CornerPoints(mons[i]) : i \in 1..Len(mons)}

\* fewer readings: an error, a point outside, the last point inside each monitor
SomeMouseReadings(mons) ==
    {MouseError, MouseAt(-1, -1)}
        \cup {MouseAt(mons[i].pos[1] + mons[i].size[1] - 1,
                      mons[i].pos[2] + mons[i].size[2] - 1) : i \in 1..Len(mons)}

None == [some |-> FALSE, x |-> 0, y |-> 0]
Some(x, y) == [some |-> TRUE, x |-> x, y |-> y]

get_mouse_position(reading) ==
    IF reading.error THEN None ELSE Some(reading.x, reading.y)

\* i32 division: the quotient is truncated toward zero
Div(a, b) == IF a >= 0 THEN a \div b ELSE -((-a) \div b)

\* a plausible slip: the right and bottom edges count as inside
mouse_within_inclusive(m, mp) ==
    /\ mp.x >= m.pos[1]
    /\ mp.x <= m.pos[1] + m.size[1]
    /\ mp.y >= m.pos[2]
    /\ mp.y <= m.pos[2] + m.size[2]

\* the test of lib.rs 216-219
MouseWithin(m, mp) ==
    /\ mp.x >= m.pos[1]
    /\ mp.x < m.pos[1] + m.size[1]
    /\ mp.y >= m.pos[2]
    /\ mp.y < m.pos[2] + m.size[2]

\* lib.rs 227-228
Centered(m, size) ==
    << m.pos[1] + Div(m.size[1] - size[1], 2),
       m.pos[2] + Div(m.size[2] - size[2], 2) >>

RECURSIVE FirstWithin(_, _, _)
\* the for loop of lib.rs 206-234: the index of the monitor it breaks at, or 0
FirstWithin(mons, i, mp) ==
    IF i > Len(mons) THEN 0
    ELSE IF MouseWithin(mons[i], mp) THEN i
    ELSE FirstWithin(mons, i + 1, mp)

RECURSIVE LastWithin(_, _, _)
LastWithin(mons, i, mp) ==
    IF i > Len(mons) THEN 0
    ELSE LET later == LastWithin(mons, i + 1, mp)
         IN  IF later # 0 THEN later
             ELSE IF MouseWithin(mons[i], mp) THEN i ELSE 0

\* a plausible slip: no monitor under the mouse falls back to the first monitor
center_with_fallback(win, mons, reading, F) ==
    LET mp == get_mouse_position(reading)
        i == IF mp.some THEN FirstWithin(mons, 1, mp) ELSE 0
    IN  IF "available_monitors" \in F \/ mons = <<>> \/ "outer_size" \in F
        THEN [pos |-> win.pos, outcome |-> "unavailable", index |-> 0, moves |-> 0]
        ELSE IF i = 0
        THEN [pos |-> Centered(mons[1], win.size), outcome |-> "moved", index |-> 1,
              moves |-> 1]
        ELSE [pos |-> Centered(mons[i], win.size), outcome |-> "moved", index |-> i,
              moves |-> 1]

\* a plausible slip: the loop has no break, so the last match wins
center_without_break(win, mons, reading, F) ==
    LET mp == get_mouse_position(reading)
        i == IF mp.some THEN LastWithin(mons, 1, mp) ELSE 0
    IN  IF ~mp.some \/ "available_monitors" \in F \/ i = 0 \/ "outer_size" \in F
        THEN [pos |-> win.pos, outcome |-> "unavailable", index |-> 0, moves |-> 0]
        ELSE [pos |-> Centered(mons[i], win.size), outcome |-> "moved", index |-> i,
              moves |-> Cardinality({k \in 1..Len(mons) : MouseWithin(mons[k], mp)})]

RECURSIVE MonitorLoop(_, _, _, _, _, _)
\* the for loop of lib.rs 206-234 from the i-th monitor on: r is the window's
\* position and the set_position calls made so far; the loop ends at the
\* first monitor that passes the test (break, lib.rs 232)
MonitorLoop(r, mons, i, mp, size, F) ==
    IF i > Len(mons) THEN r
    ELSE IF MouseWithin(mons[i], mp)
    THEN IF "outer_size" \in F
         THEN [r EXCEPT !.outcome = "no_size", !.index = i]
         ELSE [pos |-> Centered(mons[i], size), outcome |-> "moved", index |-> i,
               moves |-> r.moves + 1]
    ELSE MonitorLoop(r, mons, i + 1, mp, size, F)

\* center_window_on_monitor_with_mouse(app, window): the window's position
\* after the call, what happened, the index of the monitor used, and the
\* number of set_position calls
center_window_on_monitor_with_mouse(win, mons, reading, F) ==
    LET mp == get_mouse_position(reading)
        stay == [pos |-> win.pos, outcome |-> "no_match", index |-> 0, moves |-> 0]
    IN  IF ~mp.some
        THEN [stay EXCEPT !.outcome = "no_mouse"]
        ELSE IF "available_monitors" \in F
        THEN [stay EXCEPT !.outcome = "no_monitors"]
        ELSE MonitorLoop(stay, mons, 1, mp, win.size, F)

----------------------------------------------------------------------------
(* Window lifecycle controller (lib.rs 237-291) *)

DefaultLogicalWidth == 800
DefaultLogicalHeight == 150

NoWindow ==
    [visible |-> FALSE, focused |-> FALSE, always_on_top |-> FALSE,
     pos |-> <<0, 0>>, size |-> <<0, 0>>]

\* where the OS puts a window built without a position: near the origin of
\* one of the monitors, at that monitor's scale factor
Placements(mons) ==
    IF mons = <<>> THEN {[pos |-> <<26, 23>>, scale_factor |-> 1]}
    ELSE {[pos |-> <<mons[i].pos[1] + 26, mons[i].pos[2] + 23>>,
           scale_factor |-> mons[i].scale_factor] : i \in 1..Len(mons)}

\* WebviewWindowBuilder::new(app, "main", ..).inner_size(800.0, 150.0)
\* .decorations(false).build(): visible and focused, as the builder defaults are
Built(place) ==
    [visible |-> TRUE, focused |-> TRUE, always_on_top |-> FALSE,
     pos |-> place.pos,
     size |-> << DefaultLogicalWidth * place.scale_factor,
                 DefaultLogicalHeight * place.scale_factor >>]

show(w) == [w EXCEPT !.visible = TRUE]
set_focus(w) == [w EXCEPT !.focused = TRUE]
set_always_on_top(w, b) == [w EXCEPT !.always_on_top = b]
set_position(w, p) == [w EXCEPT !.pos = p]

\* app.get_webview_window(label) is Some
get_webview_window(ws, label) == ws[label] > 0

\* another window taking the input focus
Unfocus(w) == [w EXCEPT !.focused = FALSE]

NoTrace ==
    [calls |-> <<>>, branch |-> "none", center |-> "none", index |-> 0, moves |-> 0,
     mouse |-> MouseError, pulse |-> <<>>, emitted |-> <<>>]

\* the state a handler works on, and the inputs it reads from the OS
State(ws, m, sw) == [windows |-> ws, main |-> m, settingsWin |-> sw, trace |-> NoTrace]
Env(mons, reading, place, F) ==
    [monitors |-> mons, mouse |-> reading, place |-> place, faults |-> F]

\* (the visual effect's result is dropped, lib.rs 273 and 283: no fault for it)
HandlerFaults == {"build", "available_monitors", "outer_size"}

\* a plausible slip: no lookup of the existing window before building one
create_without_lookup(st, new_chat, env) ==
    IF "build" \in env.faults
    THEN [st EXCEPT !.trace = [NoTrace EXCEPT !.calls = <<new_chat>>,
                                  !.branch = "build_failed", !.mouse = env.mouse]]
    ELSE LET c == center_window_on_monitor_with_mouse(
                      Built(env.place), env.monitors, env.mouse, env.faults)
         IN  [windows |-> [st.windows EXCEPT !["main"] = @ + 1],
              main |-> set_position(Built(env.place), c.pos),
              settingsWin |-> Unfocus(st.settingsWin),
              trace |-> [calls |-> <<new_chat>>, branch |-> "create",
                         center |-> c.outcome, index |-> c.index, moves |-> c.moves,
                         mouse |-> env.mouse, pulse |-> <<TRUE, FALSE>>,
                         emitted |-> IF new_chat THEN <<"new-chat">> ELSE <<>>]]

\* a plausible slip: the existing window is raised but never un-pinned
focus_and_stay_on_top(st, new_chat, env) ==
    IF get_webview_window(st.windows, "main")
    THEN LET c == center_window_on_monitor_with_mouse(
                      st.main, env.monitors, env.mouse, env.faults)
         IN  [windows |-> st.windows,
              main |-> set_always_on_top(
                           set_focus(show(set_position(st.main, c.pos))), TRUE),
              settingsWin |-> Unfocus(st.settingsWin),
              trace |-> [calls |-> <<new_chat>>, branch |-> "reuse",
                         center |-> c.outcome, index |-> c.index, moves |-> c.moves,
                         mouse |-> env.mouse, pulse |-> <<TRUE>>,
                         emitted |-> IF new_chat THEN <<"new-chat">> ELSE <<>>]]
    ELSE create_without_lookup(st, new_chat, env)

\* a plausible slip: "new-chat" is emitted only for a window that existed
emit_on_reuse_only(st, new_chat, env) ==
    IF get_webview_window(st.windows, "main")
    THEN LET c == center_window_on_monitor_with_mouse(
                      st.main, env.monitors, env.mouse, env.faults)
         IN  [windows |-> st.windows,
              main |-> set_always_on_top(set_always_on_top(
                           set_focus(show(set_position(st.main, c.pos))), TRUE), FALSE),
              settingsWin |-> Unfocus(st.settingsWin),
              trace |-> [calls |-> <<new_chat>>, branch |-> "reuse",
                         center |-> c.outcome, index |-> c.index, moves |-> c.moves,
                         mouse |-> env.mouse, pulse |-> <<TRUE, FALSE>>,
                         emitted |-> IF new_chat THEN <<"new-chat">> ELSE <<>>]]
    ELSE LET r == create_without_lookup(st, new_chat, env)
         IN  [r EXCEPT !.trace.emitted = <<>>]

\* create_or_focus_main_window(app, new_chat)
create_or_focus_main_window(st, new_chat, env) ==
    IF get_webview_window(st.windows, "main")
    THEN \* lib.rs 238-250: center, show, focus, pulse always-on-top, emit
         LET c == center_window_on_monitor_with_mouse(
                      st.main, env.monitors, env.mouse, env.faults)
         IN  [windows |-> st.windows,
              main |-> set_always_on_top(set_always_on_top(
                           set_focus(show(set_position(st.main, c.pos))), TRUE), FALSE),
              settingsWin |-> Unfocus(st.settingsWin),
              trace |-> [calls |-> <<new_chat>>, branch |-> "reuse",
                         center |-> c.outcome, index |-> c.index, moves |-> c.moves,
                         mouse |-> env.mouse, pulse |-> <<TRUE, FALSE>>,
                         emitted |-> IF new_chat THEN <<"new-chat">> ELSE <<>>]]
    ELSE IF "build" \in env.faults
    THEN \* lib.rs 254: build() is Err, nothing else runs
         [st EXCEPT !.trace = [NoTrace EXCEPT !.calls = <<new_chat>>,
                                  !.branch = "build_failed", !.mouse = env.mouse]]
    ELSE \* lib.rs 264-288: center, pulse, visual effect (result dropped), emit
         LET c == center_window_on_monitor_with_mouse(
                      Built(env.place), env.monitors, env.mouse, env.faults)
         IN  [windows |-> [st.windows EXCEPT !["main"] = @ + 1],
              main |-> set_always_on_top(set_always_on_top(
                           set_position(Built(env.place), c.pos), TRUE), FALSE),
              settingsWin |-> Unfocus(st.settingsWin),
              trace |-> [calls |-> <<new_chat>>, branch |-> "create",
                         center |-> c.outcome, index |-> c.index, moves |-> c.moves,
                         mouse |-> env.mouse, pulse |-> <<TRUE, FALSE>>,
                         emitted |-> IF new_chat THEN <<"new-chat">> ELSE <<>>]]

----------------------------------------------------------------------------
(* Global shortcut handler and tray handlers (lib.rs 297-317, 363-396) *)

Platforms == {"macos", "windows", "linux"}

Shortcut(mods, key) == [mods |-> mods, key |-> key]
NoShortcut == Shortcut({}, "")

\* lib.rs 300-303
mod_key(pf) == IF pf = "macos" THEN "SUPER" ELSE "CONTROL"
\* lib.rs 305-306
focus_shortcut(pf) == Shortcut({mod_key(pf)}, "KeyE")
new_chat_shortcut(pf) == Shortcut({mod_key(pf), "SHIFT"}, "KeyE")

\* the shortcuts whose events can reach the handler: the two bindings, and
\* bindings a front-end can register through the same plugin
Shortcuts ==
    { Shortcut({"SUPER"}, "KeyE"), Shortcut({"SUPER", "SHIFT"}, "KeyE"),
      Shortcut({"CONTROL"}, "KeyE"), Shortcut({"CONTROL", "SHIFT"}, "KeyE"),
      Shortcut({"CONTROL", "SHIFT"}, "KeyF") }

ShortcutEvent(s, state) ==
    [kind |-> "shortcut", shortcut |-> s, state |-> state, id |-> "", button |-> ""]
MenuEvent(id) ==
    [kind |-> "menu", shortcut |-> NoShortcut, state |-> "", id |-> id, button |-> ""]
TrayIconEvent(variant, button, state) ==
    [kind |-> "tray", shortcut |-> NoShortcut, state |-> state, id |-> variant,
     button |-> button]
NoEvent == [kind |-> "none", shortcut |-> NoShortcut, state |-> "", id |-> "", button |-> ""]

MenuIds == {"show", "new_chat", "settings", "quit", "about"}

TrayIconEvents ==
    { TrayIconEvent("Click", "Left", "Up"), TrayIconEvent("Click", "Left", "Down"),
      TrayIconEvent("Click", "Right", "Up"), TrayIconEvent("DoubleClick", "Left", "") }

\* a plausible slip: the bindings are told apart by key code alone
handler_by_key_code(pf, st, ev, env) ==
    IF ev.shortcut.key = focus_shortcut(pf).key
    THEN create_or_focus_main_window(st, FALSE, env)
    ELSE IF ev.shortcut.key = new_chat_shortcut(pf).key
    THEN create_or_focus_main_window(st, TRUE, env)
    ELSE st

\* the closure given to with_handler: |app, shortcut, _event|
shortcut_handler(pf, st, ev, env) ==
    IF ev.shortcut = focus_shortcut(pf)
    THEN create_or_focus_main_window(st, FALSE, env)
    ELSE IF ev.shortcut = new_chat_shortcut(pf)
    THEN create_or_focus_main_window(st, TRUE, env)
    ELSE st

\* a plausible slip: the "settings" window is built when it is missing
show_or_create_settings(st) ==
    IF get_webview_window(st.windows, "settings")
    THEN [st EXCEPT !.settingsWin = set_focus(show(@)), !.main = Unfocus(@)]
    ELSE [st EXCEPT !.windows = [@ EXCEPT !["settings"] = 1],
                    !.settingsWin = set_focus(show(@)), !.main = Unfocus(@)]

\* the "settings" arm (lib.rs 374-379) and the open_settings command (113-120)
show_settings_window(st) ==
    IF get_webview_window(st.windows, "settings")
    THEN [st EXCEPT !.settingsWin = set_focus(show(@)), !.main = Unfocus(@)]
    ELSE st

\* the closure given to on_menu_event; exit: app.exit(0) was called
on_menu_event(st, ev, env) ==
    CASE ev.id = "show"     -> [st |-> create_or_focus_main_window(st, FALSE, env), exit |-> FALSE]
      [] ev.id = "new_chat" -> [st |-> create_or_focus_main_window(st, TRUE, env), exit |-> FALSE]
      [] ev.id = "settings" -> [st |-> show_settings_window(st), exit |-> FALSE]
      [] ev.id = "quit"     -> [st |-> st, exit |-> TRUE]
      [] OTHER              -> [st |-> st, exit |-> FALSE]

\* the closure given to on_tray_icon_event
on_tray_icon_event(st, ev, env) ==
    IF ev.id = "Click" /\ ev.button = "Left" /\ ev.state = "Up"
    THEN create_or_focus_main_window(st, FALSE, env)
    ELSE st

Step(op, ev, trace) == [op |-> op, ev |-> ev, trace |-> trace]

\* the inputs of one handler run: a mouse reading, where the OS would put a
\* new window, and at most one failing call among faults
Envs(readings, faults) ==
    {Env(monitors, reading, place, F) :
        reading \in readings, place \in Placements(monitors),
        F \in {{}} \cup {{x} : x \in faults}}

\* the inputs of the handlers outside the placement specification: the calls
\* of the placement engine do not fail there
SomeEnvs == Envs(SomeMouseReadings(monitors), {"build"})

Apply(r, op, ev) ==
    /\ windows' = r.windows
    /\ main' = r.main
    /\ settingsWin' = r.settingsWin
    /\ built' = IF r.trace.branch = "create" THEN built + 1 ELSE built
    /\ last' = Step(op, ev, r.trace)

\* a shortcut event is delivered to the handler
GlobalShortcutEvent ==
    /\ phase = "running"
    /\ \E s \in Shortcuts, state \in {"Pressed", "Released"}, env \in SomeEnvs :
         /\ s \in {focus_shortcut(platform), new_chat_shortcut(platform)} => s \in registered
         /\ Apply(shortcut_handler(platform, State(windows, main, settingsWin),
                                   ShortcutEvent(s, state), env),
                  "shortcut", ShortcutEvent(s, state))
    /\ UNCHANGED <<phase, monitors, claimed, registered, platform>>
    /\ UNCHANGED settingsVars
    /\ UNCHANGED job

\* a tray menu entry is chosen
TrayMenuEvent ==
    /\ phase = "running"
    /\ \E id \in MenuIds, env \in SomeEnvs :
         LET r == on_menu_event(State(windows, main, settingsWin), MenuEvent(id), env)
         IN  /\ Apply(r.st, "menu", MenuEvent(id))
             /\ phase' = IF r.exit THEN "exited" ELSE phase
    /\ UNCHANGED <<monitors, claimed, registered, platform>>
    /\ UNCHANGED settingsVars
    /\ UNCHANGED job

\* one of the mouse events evs on the tray icon, the handler reading one of envs
TrayIconEventOf(evs, envs) ==
    /\ phase = "running"
    /\ \E ev \in evs, env \in envs :
         Apply(on_tray_icon_event(State(windows, main, settingsWin), ev, env), "tray", ev)
    /\ UNCHANGED <<phase, monitors, claimed, registered, platform>>
    /\ UNCHANGED settingsVars
    /\ UNCHANGED job

\* a mouse event on the tray icon, the handler reading one of envs
TrayClick(envs) == TrayIconEventOf(TrayIconEvents, envs)

TrayClickEvent == TrayClick(SomeEnvs)

\* the same event with every corner and edge reading of the monitors and
\* every fault of the placement engine
TrayClickAnywhere == TrayClick(Envs(MouseReadings(monitors), HandlerFaults))

\* a left click on the tray icon with the mouse query failing or the mouse
\* on one of the monitors
TrayLeftClick ==
    TrayIconEventOf({TrayIconEvent("Click", "Left", "Up")},
                    Envs({MouseError} \cup
                           {MouseAt(monitors[i].pos[1] + 1, monitors[i].pos[2] + 1) :
                               i \in 1..Len(monitors)}, {}))

\* the open_settings command, its two calls served back to back and both Ok
open_settings ==
    /\ phase = "running"
    /\ Apply(show_settings_window(State(windows, main, settingsWin)),
             "open_settings", NoEvent)
    /\ UNCHANGED <<phase, monitors, claimed, registered, platform>>
    /\ UNCHANGED settingsVars
    /\ UNCHANGED job

\* the quit_app command
quit_app ==
    /\ phase = "running"
    /\ phase' = "exited"
    /\ last' = Step("quit_app", NoEvent, NoTrace)
    /\ UNCHANGED <<windows, main, settingsWin, built, monitors, claimed, registered, platform>>
    /\ UNCHANGED settingsVars
    /\ UNCHANGED job

\* the front-end hides the popup (closing reduces to hide)
hide_main ==
    /\ phase = "running"
    /\ get_webview_window(windows, "main")
    /\ main.visible
    /\ main' = [main EXCEPT !.visible = FALSE, !.focused = FALSE]
    /\ last' = Step("hide", NoEvent, NoTrace)
    /\ UNCHANGED <<phase, windows, settingsWin, built, monitors, claimed, registered, platform>>
    /\ UNCHANGED settingsVars
    /\ UNCHANGED job

----------------------------------------------------------------------------
(* The async commands resize_window and reset_window (lib.rs 127-184).     *)
(* Tauri runs an `async fn` command off the main thread; each call it      *)
(* makes on the window is handed to the main thread on its own, so the     *)
(* callbacks of the main thread can run between two of its calls.  One     *)
(* action is one call on the window.                                       *)

\* height_percentage as the ratio num / den
Fraction(n, d) == [num |-> n, den |-> d]

\* the fractions the front-end passes in this model: 0, 0.0625, 0.675 and 1
Fractions == {Fraction(0, 1), Fraction(1, 16), Fraction(27, 40), Fraction(1, 1)}

\* (size.height as f64 * height_percentage).round() as u32, lib.rs 132:
\* f64::round rounds half away from zero
RoundedHeight(h, f) == (2 * h * f.num + f.den) \div (2 * f.den)

Max(a, b) == IF a >= b THEN a ELSE b
Min(a, b) == IF a <= b THEN a ELSE b

\* the area a window shares with a monitor (a window is at least 1 x 1)
Overlap(m, w) ==
    LET dx == Min(m.pos[1] + m.size[1], w.pos[1] + Max(w.size[1], 1))
                  - Max(m.pos[1], w.pos[1])
        dy == Min(m.pos[2] + m.size[2], w.pos[2] + Max(w.size[2], 1))
                  - Max(m.pos[2], w.pos[2])
    IN  IF dx > 0 /\ dy > 0 THEN dx * dy ELSE 0

\* window.current_monitor(): the index of the monitor that holds most of the
\* window (the first such in the list), or 0 when it is not Ok(Some(monitor))
current_monitor(w, mons, F) ==
    IF "current_monitor" \in F THEN 0
    ELSE LET best == {i \in 1..Len(mons) :
                        /\ Overlap(mons[i], w) > 0
                        /\ \A k \in 1..Len(mons) :
                               Overlap(mons[k], w) <= Overlap(mons[i], w)}
         IN  IF best = {} THEN 0 ELSE CHOOSE i \in best : \A k \in best : i <= k

\* the scale factor a logical size is converted with: that of the monitor the
\* window is on
scale_factor(w, mons) ==
    IF current_monitor(w, mons, {}) = 0 THEN 1
    ELSE mons[current_monitor(w, mons, {})].scale_factor

set_size(w, size) == [w EXCEPT !.size = size]

\* the command in flight: its next call (pc), what it has read so far (the
\* locals monitor, current_size, new_height), and once pc = "done" how it
\* returned: "no_window", "no_monitor" and "completed" are Ok(()), "failed" is
\* Err.  History of the run: resized / moved (a call of it changed the
\* window's size / position), clean (no other step ran since it was invoked),
\* repeat (it directly follows a completed run of the same command with the
\* same argument), count (the commands invoked so far).
NoJob ==
    [cmd |-> "none", pc |-> "done", f |-> Fraction(0, 1), mon |-> 0,
     size |-> <<0, 0>>, new_height |-> 0, how |-> "", ok |-> FALSE,
     resized |-> FALSE, moved |-> FALSE,
     clean |-> FALSE, repeat |-> FALSE, count |-> 0]

\* the monitor lists the window commands are run with: none, one, two side by
\* side with different scale factors, and a display with its smaller mirror
CommandMonitorLists ==
    { <<>>,
      <<Primary>>,
      <<Primary, Monitor(1920, 0, 1280, 720, 2)>>,
      <<Monitor(0, 0, 1280, 720, 1), Primary>> }

\* the calls of the two commands that can return Err, and current_monitor()
\* not being Ok(Some(monitor))
CommandFaults == {"current_monitor", "inner_size", "set_size", "set_position"}

\* the command returns; its locals are dropped
Finish(j, how) ==
    [NoJob EXCEPT !.cmd = j.cmd, !.f = j.f, !.how = how, !.ok = (how # "failed"),
                  !.resized = j.resized, !.moved = j.moved,
                  !.clean = j.clean, !.repeat = j.repeat, !.count = j.count]

Invoked(cmd, f, first, ws, w) ==
    LET j == [NoJob EXCEPT !.cmd = cmd, !.f = f, !.pc = first, !.clean = TRUE,
                           !.count = job.count + 1,
                           !.repeat = /\ job.cmd = cmd /\ job.f = f
                                      /\ job.pc = "done" /\ job.how = "completed"
                                      /\ job.clean
                                      /\ last.op = cmd]
    IN  \* lib.rs 129, 159: without a "main" window the command returns Ok(())
        IF get_webview_window(ws, "main") THEN j ELSE Finish(j, "no_window")


\* lib.rs 130-132: the current monitor and the new height
resize_read_monitor(j, w, mons, F) ==
    LET i == current_monitor(w, mons, F)
    IN  IF i = 0 THEN [job |-> Finish(j, "no_monitor"), main |-> w]
        ELSE [job |-> [j EXCEPT !.pc = "inner_size", !.mon = i,
                                !.new_height = RoundedHeight(mons[i].size[2], j.f)],
              main |-> w]

\* lib.rs 133: window.inner_size()?
resize_read_size(j, w, F) ==
    IF "inner_size" \in F
    THEN [job |-> Finish(j, "failed"), main |-> w]
    ELSE [job |-> [j EXCEPT !.pc = "set_size", !.size = w.size], main |-> w]

\* lib.rs 136-139: set_size(Physical { current_size.width, new_height })?
resize_set_size(j, w, F) ==
    IF "set_size" \in F
    THEN [job |-> Finish(j, "failed"), main |-> w]
    ELSE [job |-> [j EXCEPT !.pc = "set_position"],
          main |-> set_size(w, <<j.size[1], j.new_height>>)]

\* lib.rs 142-151: set_position(Physical { x, y })? on the monitor read before
resize_set_position(j, w, mons, F) ==
    IF "set_position" \in F
    THEN [job |-> Finish(j, "failed"), main |-> w]
    ELSE [job |-> Finish(j, "completed"),
          main |-> set_position(w,
                     << mons[j.mon].pos[1] + Div(mons[j.mon].size[1] - j.size[1], 2),
                        mons[j.mon].pos[2] + Div(mons[j.mon].size[2] - j.new_height, 2) >>)]

\* a plausible slip: the window is centred with the height it had before
resize_center_old_height(j, w, mons, F) ==
    CASE j.pc = "current_monitor" -> resize_read_monitor(j, w, mons, F)
      [] j.pc = "inner_size"      -> resize_read_size(j, w, F)
      [] j.pc = "set_size"        -> resize_set_size(j, w, F)
      [] OTHER ->
           [job |-> Finish(j, "completed"),
            main |-> set_position(w,
                       << mons[j.mon].pos[1] + Div(mons[j.mon].size[1] - j.size[1], 2),
                          mons[j.mon].pos[2] + Div(mons[j.mon].size[2] - j.size[2], 2) >>)]

\* a plausible slip: the fraction is taken of the window's height
resize_by_window_height(j, w, mons, F) ==
    CASE j.pc = "current_monitor" ->
           LET i == current_monitor(w, mons, F)
           IN  IF i = 0 THEN [job |-> Finish(j, "no_monitor"), main |-> w]
               ELSE [job |-> [j EXCEPT !.pc = "inner_size", !.mon = i,
                                       !.new_height = RoundedHeight(w.size[2], j.f)],
                     main |-> w]
      [] j.pc = "inner_size"      -> resize_read_size(j, w, F)
      [] j.pc = "set_size"        -> resize_set_size(j, w, F)
      [] OTHER                    -> resize_set_position(j, w, mons, F)

\* a plausible slip: the size is set before the monitor is looked up
resize_size_first(j, w, mons, F) ==
    CASE j.pc = "current_monitor" ->
           LET i == current_monitor(w, mons, F)
           IN  IF i = 0
               THEN [job |-> Finish(j, "no_monitor"),
                     main |-> set_size(w, <<w.size[1], RoundedHeight(w.size[2], j.f)>>)]
               ELSE resize_read_monitor(j, w, mons, F)
      [] j.pc = "inner_size"      -> resize_read_size(j, w, F)
      [] j.pc = "set_size"        -> resize_set_size(j, w, F)
      [] OTHER                    -> resize_set_position(j, w, mons, F)

\* the next call of resize_window(app, height_percentage) on the window w
resize_window_step(j, w, mons, F) ==
    CASE j.pc = "current_monitor" -> resize_read_monitor(j, w, mons, F)
      [] j.pc = "inner_size"      -> resize_read_size(j, w, F)
      [] j.pc = "set_size"        -> resize_set_size(j, w, F)
      [] OTHER                    -> resize_set_position(j, w, mons, F)

\* the next call of reset_window(app) on the window w
reset_window_step(j, w, mons, F) ==
    CASE j.pc = "set_size" ->
           \* lib.rs 161-164: set_size(Logical { 800.0, 150.0 })?
           IF "set_size" \in F
           THEN [job |-> Finish(j, "failed"), main |-> w]
           ELSE [job |-> [j EXCEPT !.pc = "current_monitor"],
                 main |-> set_size(w, << DefaultLogicalWidth * scale_factor(w, mons),
                                         DefaultLogicalHeight * scale_factor(w, mons) >>)]
      [] j.pc = "current_monitor" ->
           \* lib.rs 167
           IF current_monitor(w, mons, F) = 0
           THEN [job |-> Finish(j, "no_monitor"), main |-> w]
           ELSE [job |-> [j EXCEPT !.pc = "set_position",
                                   !.mon = current_monitor(w, mons, F)],
                 main |-> w]
      [] OTHER ->
           \* lib.rs 168-180
           IF "set_position" \in F
           THEN [job |-> Finish(j, "failed"), main |-> w]
           ELSE LET m == mons[j.mon]
                    width_physical == DefaultLogicalWidth * m.scale_factor
                    height_physical == DefaultLogicalHeight * m.scale_factor
                IN  [job |-> Finish(j, "completed"),
                     main |-> set_position(w,
                                << m.pos[1] + Div(m.size[1] - width_physical, 2),
                                   m.pos[2] + Div(m.size[2] - height_physical, 2) >>)]

\* the front-end invokes resize_window(f); lib.rs 129
invoke_resize_window ==
    /\ phase = "running"
    /\ job.pc = "done"
    /\ job.count < MaxCommands
    /\ \E f \in Fractions :
         job' = Invoked("resize_window", f, "current_monitor", windows, main)
    /\ last' = Step("resize_window", NoEvent, NoTrace)
    /\ UNCHANGED <<phase, windows, main, settingsWin, built, monitors, claimed,
                   registered, platform>>
    /\ UNCHANGED settingsVars

\* the front-end invokes reset_window(); lib.rs 159
invoke_reset_window ==
    /\ phase = "running"
    /\ job.pc = "done"
    /\ job.count < MaxCommands
    /\ job' = Invoked("reset_window", Fraction(0, 1), "set_size", windows, main)
    /\ last' = Step("reset_window", NoEvent, NoTrace)
    /\ UNCHANGED <<phase, windows, main, settingsWin, built, monitors, claimed,
                   registered, platform>>
    /\ UNCHANGED settingsVars

\* the main thread serves the next call of the command in flight
CommandStep(r) ==
    /\ job' = [r.job EXCEPT !.clean = job.clean /\ last.op = job.cmd,
                            !.resized = job.resized \/ r.main.size # main.size,
                            !.moved = job.moved \/ r.main.pos # main.pos]
    /\ main' = r.main
    /\ last' = Step(job.cmd, NoEvent, NoTrace)
    /\ UNCHANGED <<phase, windows, settingsWin, built, monitors, claimed,
                   registered, platform>>
    /\ UNCHANGED settingsVars

resize_window ==
    /\ phase = "running"
    /\ job.cmd = "resize_window" /\ job.pc # "done"
    /\ \E F \in {{}} \cup {{x} : x \in CommandFaults} :
         CommandStep(resize_window_step(job, main, monitors, F))

reset_window ==
    /\ phase = "running"
    /\ job.cmd = "reset_window" /\ job.pc # "done"
    /\ \E F \in {{}} \cup {{x} : x \in CommandFaults} :
         CommandStep(reset_window_step(job, main, monitors, F))

----------------------------------------------------------------------------
(* The async command open_settings (lib.rs 113-120), one action per call   *)
(* on the "settings" window.                                               *)

OpenSettingsFaults == {"show", "set_focus"}

\* the next call of open_settings(app) on the "settings" window sw; m is the
\* "main" window, which loses the input focus to it
open_settings_step(j, sw, m, F) ==
    CASE j.pc = "show" ->
           \* lib.rs 116: window.show()?
           IF "show" \in F
           THEN [job |-> Finish(j, "failed"), settingsWin |-> sw, main |-> m]
           ELSE [job |-> [j EXCEPT !.pc = "set_focus"],
                 settingsWin |-> show(sw), main |-> m]
      [] OTHER ->
           \* lib.rs 117: window.set_focus()?
           IF "set_focus" \in F
           THEN [job |-> Finish(j, "failed"), settingsWin |-> sw, main |-> m]
           ELSE [job |-> Finish(j, "completed"),
                 settingsWin |-> set_focus(sw), main |-> Unfocus(m)]

\* the front-end invokes open_settings(); lib.rs 115: without a "settings"
\* window the command returns Ok(())
invoke_open_settings ==
    /\ phase = "running"
    /\ job.pc = "done"
    /\ job.count < MaxCommands
    /\ job' = LET j == [NoJob EXCEPT !.cmd = "open_settings", !.pc = "show",
                                     !.clean = TRUE, !.count = job.count + 1]
              IN  IF get_webview_window(windows, "settings") THEN j
                  ELSE Finish(j, "no_window")
    /\ last' = Step("open_settings", NoEvent, NoTrace)
    /\ UNCHANGED <<phase, windows, main, settingsWin, built, monitors, claimed,
                   registered, platform>>
    /\ UNCHANGED settingsVars

\* the main thread serves the next call of open_settings
open_settings_call ==
    /\ phase = "running"
    /\ job.cmd = "open_settings" /\ job.pc # "done"
    /\ \E F \in {{}} \cup {{x} : x \in OpenSettingsFaults} :
         LET r == open_settings_step(job, settingsWin, main, F)
         IN  /\ job' = [r.job EXCEPT !.clean = job.clean /\ last.op = job.cmd]
             /\ settingsWin' = r.settingsWin
             /\ main' = r.main
    /\ last' = Step("open_settings", NoEvent, NoTrace)
    /\ UNCHANGED <<phase, windows, built, monitors, claimed, registered, platform>>
    /\ UNCHANGED settingsVars

----------------------------------------------------------------------------
(* run(): the setup closure (lib.rs 323-416) *)

StartupFaults == {"config_dir", "read", "is_enabled", "enable", "disable",
                  "tray", "vibrancy"}

\* the shortcuts register() accepted (lib.rs 346-351): it is Err for a
\* shortcut that is already claimed
RegisteredBy(pf, taken) ==
    (IF focus_shortcut(pf) \in taken THEN {} ELSE {focus_shortcut(pf)})
        \cup (IF new_chat_shortcut(pf) \in taken THEN {} ELSE {new_chat_shortcut(pf)})

\* lib.rs 400-413: the effect is applied with expect() on macos and windows
VibrancyPanics(pf, ws, F) ==
    /\ get_webview_window(ws, "main")
    /\ pf \in {"macos", "windows"}
    /\ "vibrancy" \in F

\* the failures of the steps that setup only logs: load_settings (lib.rs
\* 324-334, with the autostart sync) and register (346-351, see RegisteredBy)
PassiveFaults == {"config_dir", "read", "is_enabled", "enable", "disable"}

\* a plausible slip: a settings load error is passed on with `?`
setup_stops_on_load_error(pf, ws, F) ==
    IF "tray" \in F \/ "config_dir" \in F \/ "read" \in F THEN "setup_failed"
    ELSE IF VibrancyPanics(pf, ws, F) THEN "panicked"
    ELSE "running"

\* how the setup closure ends: Err from the tray construction's `?` (lib.rs
\* 354-396), a panic in expect() (400-413), or Ok(()) (415)
setup_phase(pf, ws, F) ==
    IF "tray" \in F THEN "setup_failed"
    ELSE IF VibrancyPanics(pf, ws, F) THEN "panicked"
    ELSE "running"

setup ==
    /\ phase = "init"
    /\ \E F \in SUBSET StartupFaults :
         LET l == load_settings(file, F)
             s == IF l.ok
                  THEN [sync_launch_at_startup(registration, l.value.auto_start, F)
                           EXCEPT !.by = "setup"]
                  ELSE NoSync
         IN  /\ ret' = [cmd |-> "setup", ok |-> l.ok, value |-> l.value,
                        error |-> l.error]
             /\ sync' = s
             /\ registration' = IF l.ok THEN s.after ELSE registration
             /\ hist' = [hist EXCEPT !.allOk = l.ok /\ s.ok]
             /\ registered' = RegisteredBy(platform, claimed)
             /\ phase' = setup_phase(platform, windows, F)
    /\ last' = Step("setup", NoEvent, NoTrace)
    /\ UNCHANGED <<file, pending, windows, main, settingsWin, built, monitors, claimed,
                   platform, job>>

----------------------------------------------------------------------------
(* The state before setup, and the specifications *)

\* configs.json as an earlier run, an older version or an editor can have left it
InitFiles ==
    {NoFile}
        \cup {[exists |-> TRUE, contents |-> to_string_pretty(s)] :
                 s \in {x \in Settings : x.auto_start}}
        \cup {[exists |-> TRUE,
               contents |-> SubSeq(to_string_pretty(DefaultSettings), 1, 4)],
              [exists |-> TRUE, contents |-> <<>>]}

\* the windows the application configuration declares: "main" (shown or
\* hidden) or none, and possibly a hidden "settings" window
InitWindows ==
    /\ windows \in [{"main", "settings"} -> {0, 1}]
    /\ IF windows["main"] = 1
       THEN \E place \in Placements(monitors), v \in BOOLEAN :
                main = [Built(place) EXCEPT !.visible = v, !.focused = v]
       ELSE main = NoWindow
    /\ settingsWin = NoWindow

InitCommon ==
    /\ phase = "init"
    /\ pending = {}
    /\ sync = NoSync
    /\ ret = NoRet
    /\ hist = NoHist
    /\ registered = {}
    /\ built = 0
    /\ last = Step("none", NoEvent, NoTrace)
    /\ job = NoJob

\* the window side: every platform, monitor list and declared window
Init ==
    /\ InitCommon
    /\ file = NoFile
    /\ registration = FALSE
    /\ platform \in Platforms
    /\ claimed \in SUBSET {focus_shortcut(platform), new_chat_shortcut(platform)}
    /\ monitors = <<Primary>>
    /\ InitWindows

Next ==
    \/ setup
    \/ GlobalShortcutEvent
    \/ TrayMenuEvent
    \/ TrayClickEvent
    \/ open_settings
    \/ quit_app
    \/ hide_main

Spec == Init /\ [][Next]_vars

\* the settings side: every file and registration the process can start with
InitSettings ==
    /\ InitCommon
    /\ file \in InitFiles
    /\ registration \in BOOLEAN
    /\ platform = "linux"
    /\ claimed = {}
    /\ monitors = <<Primary>>
    /\ windows = [l \in {"main", "settings"} |-> 0]
    /\ main = NoWindow
    /\ settingsWin = NoWindow

NextSettings ==
    \/ setup
    \/ invoke_save_settings
    \/ save_settings_cmd
    \/ load_settings_cmd

SettingsSpec == InitSettings /\ [][NextSettings]_vars

\* the placement side: every monitor list, one platform, the tray icon as
\* the way into create_or_focus_main_window
InitPlacement ==
    /\ InitCommon
    /\ file = NoFile
    /\ registration = FALSE
    /\ platform = "linux"
    /\ claimed = {}
    /\ monitors \in MonitorConfigs
    /\ InitWindows
    /\ windows["settings"] = 0

NextPlacement ==
    \/ setup
    \/ TrayClickAnywhere
    \/ hide_main

PlacementSpec == InitPlacement /\ [][NextPlacement]_vars

\* the window commands: every monitor list, the tray icon as the way into
\* create_or_focus_main_window while a command is in flight
InitCommand ==
    /\ InitCommon
    /\ file = NoFile
    /\ registration = FALSE
    /\ platform = "linux"
    /\ claimed = {}
    /\ monitors \in CommandMonitorLists
    /\ InitWindows
    /\ windows["main"] = 0
    /\ windows["settings"] = 0

NextCommand ==
    \/ setup
    \/ TrayLeftClick
    \/ invoke_resize_window
    \/ invoke_reset_window
    \/ resize_window
    \/ reset_window

CommandSpec == InitCommand /\ [][NextCommand]_vars

\* the "settings" window: the tray menu and the open_settings command, with
\* the menu's createOrFocus and the front-end's hide between the command's calls
InitOpenSettings ==
    /\ InitCommon
    /\ file = NoFile
    /\ registration = FALSE
    /\ platform = "linux"
    /\ claimed = {}
    /\ monitors = <<Primary>>
    /\ InitWindows

NextOpenSettings ==
    \/ setup
    \/ TrayMenuEvent
    \/ invoke_open_settings
    \/ open_settings_call
    \/ hide_main

OpenSettingsSpec == InitOpenSettings /\ [][NextOpenSettings]_vars

----------------------------------------------------------------------------
(* Properties *)

\* the last step was a handler that went through create_or_focus_main_window
\* and found ("reuse") or constructed ("create") the "main" window
FoundOrMade == last.trace.branch \in {"reuse", "create"}

\* C1: at most one "main" window exists in every state, a createOrFocus call
\* that found or constructed the window leaves exactly one, and a call that
\* directly follows such a call reuses the window: it constructs nothing.
C1_SingleMainWindow ==
    /\ [](/\ windows["main"] <= 1
          /\ built <= 1
          /\ FoundOrMade => windows["main"] = 1)
    /\ [][(FoundOrMade /\ last'.trace.calls # <<>>)
            => /\ last'.trace.branch = "reuse"
               /\ windows' = windows
               /\ built' = built]_vars

\* C1 witness: a call reused the window an earlier call constructed
C1_Witness ==
    /\ last.trace.branch = "reuse"
    /\ built = 1
    /\ windows["main"] = 1

\* C2: always-on-top is false in every state between two events; after a
\* createOrFocus call that took the reuse or the create branch the "main"
\* window is visible and focused, and the call set the flag true and then false.
C2_ShownFocusedNotPinned ==
    /\ main.always_on_top = FALSE
    /\ FoundOrMade =>
         /\ windows["main"] >= 1
         /\ main.visible
         /\ main.focused
         /\ last.trace.pulse = <<TRUE, FALSE>>

\* C2 witness: a createOrFocus(true) call on an existing window has completed
C2_Witness ==
    /\ last.trace.branch = "reuse"
    /\ last.trace.calls = <<TRUE>>
    /\ main.visible /\ main.focused /\ ~main.always_on_top

\* C3: a createOrFocus(true) call that found or constructed the window emitted
\* exactly one "new-chat" event, a createOrFocus(false) call emitted none, and
\* a call whose window construction failed emitted none.
C3_OneNewChatEvent ==
    /\ FoundOrMade =>
         /\ Len(last.trace.calls) = 1
         /\ last.trace.calls[1] => last.trace.emitted = <<"new-chat">>
         /\ ~last.trace.calls[1] => last.trace.emitted = <<>>
    /\ ~FoundOrMade => last.trace.emitted = <<>>

\* C3 witness: createOrFocus(true) constructed the window and emitted the event
C3_Witness ==
    /\ last.trace.branch = "create"
    /\ last.trace.calls = <<TRUE>>
    /\ last.trace.emitted = <<"new-chat">>

\* the intents of the inputs, as the specification names them
PrimaryModifier == IF platform = "macos" THEN "SUPER" ELSE "CONTROL"
IsFocusInput(ev) ==
    \/ ev.kind = "shortcut" /\ ev.shortcut = [mods |-> {PrimaryModifier}, key |-> "KeyE"]
    \/ ev.kind = "menu" /\ ev.id = "show"
    \/ ev.kind = "tray" /\ ev.id = "Click" /\ ev.button = "Left" /\ ev.state = "Up"
IsNewChatInput(ev) ==
    \/ /\ ev.kind = "shortcut"
       /\ ev.shortcut = [mods |-> {PrimaryModifier, "SHIFT"}, key |-> "KeyE"]
    \/ ev.kind = "menu" /\ ev.id = "new_chat"
IsInput(ev) == ev.kind \in {"shortcut", "menu", "tray"}
WindowsUnchanged ==
    /\ windows' = windows
    /\ main' = main
    /\ settingsWin' = settingsWin

\* C4 as claimed: every shortcut event or menu identifier other than the Focus
\* and NewChat ones calls nothing and changes no window state.
C4_AsClaimed ==
    [][IsInput(last'.ev) =>
        /\ IsFocusInput(last'.ev) => last'.trace.calls = <<FALSE>>
        /\ IsNewChatInput(last'.ev) => last'.trace.calls = <<TRUE>>
        /\ (~IsFocusInput(last'.ev) /\ ~IsNewChatInput(last'.ev)) =>
             /\ last'.trace.calls = <<>>
             /\ WindowsUnchanged]_vars

\* C4: the Focus inputs call createOrFocus(false) once, the NewChat inputs
\* createOrFocus(true) once, every other input calls neither and constructs no
\* window; among those only the tray "settings" entry changes window state (it
\* shows and focuses an existing "settings" window).
C4_InputsRouted ==
    [][IsInput(last'.ev) =>
        /\ IsFocusInput(last'.ev) => last'.trace.calls = <<FALSE>>
        /\ IsNewChatInput(last'.ev) => last'.trace.calls = <<TRUE>>
        /\ (~IsFocusInput(last'.ev) /\ ~IsNewChatInput(last'.ev)) =>
             /\ last'.trace.calls = <<>>
             /\ windows' = windows
             /\ (last'.ev.kind = "menu" /\ last'.ev.id = "settings")
                    \/ WindowsUnchanged]_vars

\* C4 witness: the NewChat hotkey was released and createOrFocus(true) ran
C4_Witness ==
    /\ last.ev.kind = "shortcut"
    /\ last.ev.shortcut = [mods |-> {PrimaryModifier, "SHIFT"}, key |-> "KeyE"]
    /\ last.ev.state = "Released"
    /\ last.trace.calls = <<TRUE>>

\* C5: a sync that read the registration made a mutating call exactly when the
\* registration differed from the desired value (enable when it was off,
\* disable when it was on), a sync whose read failed made none, and after a
\* successful sync the registration equals the desired value.
C5_SyncTogglesIffDifferent ==
    sync.by # "none" =>
        /\ sync.read => ((sync.call # "none") <=> (sync.before # sync.desired))
        /\ sync.call = "enable" => (sync.desired /\ ~sync.before)
        /\ sync.call = "disable" => (~sync.desired /\ sync.before)
        /\ ~sync.read => (sync.call = "none" /\ ~sync.ok)
        /\ ~sync.ok => registration = sync.before
        /\ sync.ok => registration = sync.desired

\* C5 witness: a save found the registration on, wanted it off and disabled it
C5_Witness ==
    /\ sync.by = "save_settings"
    /\ sync.before /\ ~sync.desired
    /\ sync.call = "disable"
    /\ sync.ok
    /\ ~registration

\* C6: once setup has run, if the startup load and sync and every save_settings
\* call so far succeeded, configs.json parses and the registration equals its
\* autoStart value (FALSE when there is no file), whatever saves are waiting.
C6_RegistrationFollowsFile ==
    (phase = "running" /\ hist.allOk) =>
        /\ load_settings(file, {}).ok
        /\ registration = load_settings(file, {}).value.auto_start

\* C6 witness: two saves with different autoStart values were waiting at the
\* same time, both have run and succeeded, and the registration is on
C6_Witness ==
    /\ phase = "running"
    /\ hist.allOk /\ hist.overlap
    /\ pending = {}
    /\ ret.cmd = "save_settings"
    /\ registration

\* a step of the load_settings command (the only step that leaves a
\* load_settings result without touching the phase or the waiting saves)
LoadStep == ret'.cmd = "load_settings" /\ pending' = pending /\ phase' = phase

\* C7: load_settings never changes configs.json, and when the file does not
\* exist (and the configuration directory is known) it returns Ok with apiKey
\* "", selectedModel "openai/gpt-oss-120b", darkMode true, autoStart false, the
\* fixed systemPrompt, sendOnEnter false and modelShortcuts with keys h, f, o.
C7_LoadDefaultsNoWrite ==
    [][LoadStep =>
        /\ file' = file
        /\ registration' = registration
        /\ (~file.exists /\ ret'.error # "Could not find config directory") =>
             /\ ret'.ok
             /\ ret'.value.api_key = ""
             /\ ret'.value.selected_model = "openai/gpt-oss-120b"
             /\ ret'.value.dark_mode = TRUE
             /\ ret'.value.auto_start = FALSE
             /\ ret'.value.system_prompt = DefaultPrompt
             /\ ret'.value.send_on_enter = FALSE
             /\ DOMAIN ret'.value.model_shortcuts = {"h", "f", "o"}
             /\ ret'.value.model_shortcuts["h"] = "google/gemini-3-pro-preview"
             /\ ret'.value.model_shortcuts["f"] = "google/gemini-3-flash-preview"
             /\ ret'.value.model_shortcuts["o"] = "openai/gpt-oss-120b"]_vars

\* C7 witness: a load in an environment without configs.json returned the defaults
C7_Witness ==
    /\ ret.cmd = "load_settings"
    /\ ret.ok
    /\ ~file.exists
    /\ DOMAIN ret.value.model_shortcuts = {"h", "f", "o"}

\* C8: a load_settings that follows one or more writes of configs.json and can
\* read the file returns Ok with the value of the last write, field for field.
C8_SaveLoadRoundTrip ==
    (/\ ret.cmd = "load_settings"
     /\ hist.wrote
     /\ ret.error \notin {"Could not find config directory", "Failed to read config file"})
    => /\ ret.ok
       /\ ret.value.api_key = hist.written.api_key
       /\ ret.value.selected_model = hist.written.selected_model
       /\ ret.value.dark_mode = hist.written.dark_mode
       /\ ret.value.auto_start = hist.written.auto_start
       /\ ret.value.system_prompt = hist.written.system_prompt
       /\ ret.value.model_shortcuts = hist.written.model_shortcuts
       /\ ret.value.send_on_enter = hist.written.send_on_enter

\* C8 witness: a load returned the non-default prompt and map that were saved
C8_Witness ==
    /\ ret.cmd = "load_settings"
    /\ ret.ok
    /\ hist.wrote
    /\ ret.value.system_prompt = "Be brief."
    /\ DOMAIN ret.value.model_shortcuts = {"g"}

\* the last step ran the placement engine with a mouse point, a monitor list
\* and the window's outer size all available
PlacementRan ==
    /\ FoundOrMade
    /\ ~last.trace.mouse.error
    /\ last.trace.center \notin {"no_monitors", "no_size"}

\* C9 as claimed: the window is centred on every monitor whose rectangle
\* contains the mouse point, whatever the other monitors and their order.
C9_AsClaimed ==
    PlacementRan =>
        \A i \in 1..Len(monitors) :
            MouseWithin(monitors[i], last.trace.mouse)
                => main.pos = Centered(monitors[i], main.size)

\* C9: the window's top-left is M.origin + (M.size - (w, h)) / 2 for the first
\* monitor M of the OS-reported list whose rectangle contains the mouse point;
\* monitors that do not contain the point have no influence on the result.
C9_CenteredOnFirstMonitorUnderMouse ==
    PlacementRan =>
        \A i \in 1..Len(monitors) :
            (/\ MouseWithin(monitors[i], last.trace.mouse)
             /\ \A j \in 1..(i - 1) : ~MouseWithin(monitors[j], last.trace.mouse))
            => /\ last.trace.center = "moved"
               /\ last.trace.index = i
               /\ main.pos[1] = monitors[i].pos[1]
                                  + Div(monitors[i].size[1] - main.size[1], 2)
               /\ main.pos[2] = monitors[i].pos[2]
                                  + Div(monitors[i].size[2] - main.size[2], 2)

\* C9 witness: the mouse is on the second of two monitors only, and the window
\* was centred there
C9_Witness ==
    /\ PlacementRan
    /\ Len(monitors) = 2
    /\ ~MouseWithin(monitors[1], last.trace.mouse)
    /\ MouseWithin(monitors[2], last.trace.mouse)
    /\ last.trace.index = 2
    /\ main.pos = Centered(monitors[2], main.size)

\* the mouse query failed, or the point is outside every monitor
MouseNowhere(reading) ==
    \/ reading.error
    \/ \A i \in 1..Len(monitors) : ~MouseWithin(monitors[i], reading)

\* C10: when the mouse query fails or the point is outside every monitor, a
\* createOrFocus call on an existing window leaves its position and size as they
\* were and a call that constructs the window leaves it where and as large as
\* it was built; in both cases the window is visible and focused afterwards.
C10_NoMouseNoMove ==
    [][(/\ last'.op = "tray"
        /\ last'.trace.branch \in {"reuse", "create"}
        /\ MouseNowhere(last'.trace.mouse))
       => /\ last'.trace.center \in {"no_mouse", "no_monitors", "no_match"}
          /\ main'.visible
          /\ main'.focused
          /\ last'.trace.branch = "reuse" =>
                (main'.pos = main.pos /\ main'.size = main.size)
          /\ last'.trace.branch = "create" =>
                \E place \in Placements(monitors) :
                    /\ main'.pos = place.pos
                    /\ main'.size = << DefaultLogicalWidth * place.scale_factor,
                                       DefaultLogicalHeight * place.scale_factor >>]_vars

\* C10 witness: the mouse was outside every monitor when the hidden window was
\* asked for again; it is shown and focused
C10_Witness ==
    /\ last.trace.branch = "reuse"
    /\ last.trace.center = "no_match"
    /\ ~last.trace.mouse.error
    /\ monitors # <<>>
    /\ main.visible /\ main.focused

\* a step of the command in flight (one of its calls on the window)
ResizeStep == job.cmd = "resize_window" /\ job.pc # "done" /\ last'.op = "resize_window"
ResetStep == job.cmd = "reset_window" /\ job.pc # "done" /\ last'.op = "reset_window"

\* C11: a resize(f) that found the current monitor M and completed has set the
\* height to round(M.height * f) (half away from zero), has kept the width at
\* every step, and its last call puts the window at
\* x = M.x + (M.width - width) / 2, y = M.y + (M.height - newHeight) / 2,
\* M being the monitor it read at its first call.
C11_ResizeSetsHeightAndCenters ==
    [][ResizeStep =>
        /\ main'.size[1] = main.size[1]
        /\ (job.pc = "current_monitor" /\ job'.pc # "done") =>
               /\ job'.mon \in 1..Len(monitors)
               /\ Overlap(monitors[job'.mon], main) > 0
        /\ (job.pc # "current_monitor" /\ job'.pc # "done") => job'.mon = job.mon
        /\ job'.how = "completed" =>
               LET M == monitors[job.mon]
                   h == main'.size[2]
               IN  /\ 2 * job.f.den * h - job.f.den <= 2 * M.size[2] * job.f.num
                   /\ 2 * M.size[2] * job.f.num < 2 * job.f.den * h + job.f.den
                   /\ main'.pos[1] = M.pos[1] + Div(M.size[1] - main'.size[1], 2)
                   /\ main'.pos[2] = M.pos[2] + Div(M.size[2] - h, 2)]_vars

\* C11 witness: resize(0.0625) on the 1080 pixel high monitor completed: the
\* height is 68 (67.5 rounded) and the window is centred
C11_Witness ==
    /\ job.cmd = "resize_window" /\ job.how = "completed"
    /\ job.f = Fraction(1, 16)
    /\ main.size = <<800, 68>>
    /\ main.pos = <<560, 506>>

\* C12 as claimed: a resize or reset that found no current monitor returned
\* Ok and none of its calls changed the window's size or position.
C12_AsClaimed ==
    job.how = "no_monitor" => (job.ok /\ ~job.resized /\ ~job.moved)

\* C12: a resize or reset that found no current monitor returned Ok and did
\* not move the window; the resize did not change its size either, while the
\* reset had already set it to the default logical size (800 x 150 times the
\* window's scale factor) before it looked for the monitor.
C12_NoMonitorNoMove ==
    /\ [](job.how = "no_monitor" =>
             /\ job.ok
             /\ ~job.moved
             /\ job.cmd = "resize_window" => ~job.resized)
    /\ [][(ResetStep /\ job'.how = "no_monitor") =>
             /\ main' = main
             /\ \E k \in {1} \cup {monitors[i].scale_factor : i \in 1..Len(monitors)} :
                    main.size = <<800 * k, 150 * k>>]_vars

\* C12 witness: a reset found no current monitor after it had changed the size
C12_Witness ==
    /\ job.cmd = "reset_window"
    /\ job.how = "no_monitor"
    /\ job.resized
    /\ main.size = <<800, 150>>

\* C13: a resize(f) or reset() that directly follows a completed run of the
\* same command with the same argument, with no other step in between or
\* during the two runs, changes neither the size nor the position of the
\* window at any of its calls.
C13_Idempotent ==
    (job.repeat /\ job.clean) => (~job.resized /\ ~job.moved)

\* C13 witness: resize(0.675) ran to completion twice in a row
C13_Witness ==
    /\ job.cmd = "resize_window" /\ job.f = Fraction(27, 40)
    /\ job.repeat /\ job.clean
    /\ job.how = "completed"
    /\ main.size[2] \in {729, 486}

\* a step of the open_settings command, or the tray menu's "settings" entry
OpenSettingsStep == last'.op = "open_settings"
SettingsEntryStep == last'.op = "menu" /\ last'.ev.id = "settings"

\* C14: neither the tray "Settings" entry nor the open_settings command creates
\* a window.  Without a "settings" window they change no window and the command
\* returns Ok; with one, the entry leaves it shown and focused, and so does the
\* command when it returns Ok.
C14_SettingsNeverCreated ==
    [][(OpenSettingsStep \/ SettingsEntryStep) =>
          /\ windows' = windows
          /\ built' = built
          /\ ~get_webview_window(windows, "settings") =>
                /\ main' = main
                /\ settingsWin' = settingsWin
                /\ OpenSettingsStep => (job'.pc = "done" /\ job'.how = "no_window" /\ job'.ok)
          /\ get_webview_window(windows, "settings") =>
                /\ SettingsEntryStep => (settingsWin'.visible /\ settingsWin'.focused)
                /\ OpenSettingsStep =>
                      /\ job'.how # "no_window"
                      /\ (job'.pc = "done" /\ job'.ok) =>
                             (settingsWin'.visible /\ settingsWin'.focused)]_vars

\* C14 witness: open_settings returned Ok without a "settings" window while the
\* "main" window is on screen
C14_Witness ==
    /\ last.op = "open_settings"
    /\ job.cmd = "open_settings" /\ job.how = "no_window" /\ job.ok
    /\ ~get_webview_window(windows, "settings")
    /\ get_webview_window(windows, "main") /\ main.visible

\* C15: whatever fails among the steps that setup only logs (loading the
\* settings, the autostart sync, registering the hotkeys), setup ends in the
\* running state, where the tray menu is served; and the tray's "Show" and
\* "New Chat" entries call createOrFocus whatever hotkeys are registered.
C15_StartupSurvivesPassiveFailures ==
    /\ [](/\ \A F \in SUBSET PassiveFaults :
                 setup_phase(platform, windows, F) = "running"
          /\ phase = "running" => ENABLED TrayMenuEvent)
    /\ [][/\ last'.op = "setup" =>
                /\ phase' \in {"running", "setup_failed", "panicked"}
                /\ registered' = {focus_shortcut(platform), new_chat_shortcut(platform)}
                                    \ claimed
          /\ (last'.op = "menu" /\ last'.ev.id \in {"show", "new_chat"}) =>
                last'.trace.calls = <<last'.ev.id = "new_chat">>]_vars

\* C15 witness: the settings could not be loaded and no hotkey was registered
\* at startup, and the tray's "New Chat" entry has made the "main" window
C15_Witness ==
    /\ phase = "running"
    /\ ret.cmd = "setup" /\ ~ret.ok
    /\ registered = {}
    /\ last.op = "menu" /\ last.ev.id = "new_chat"
    /\ last.trace.calls = <<TRUE>> /\ last.trace.branch = "create"
    /\ main.visible

\* C16: a failure of the visual effect is never fatal, at startup or in
\* createOrFocus: the process does not panic, and a createOrFocus call that
\* built the window leaves the process running with the window shown.
C16_AsClaimed ==
    /\ phase # "panicked"
    /\ last.trace.branch = "create" => (phase = "running" /\ main.visible)

\* a step of the save_settings command: one waiting save has run
SaveStep ==
    ret'.cmd = "save_settings" /\ pending' # pending /\ pending' \subseteq pending

\* the errors of the steps before the autostart sync, in the order of the steps
FileStepErrors ==
    << "Could not find config directory", "Failed to create config directory",
       "Failed to serialize settings", "Failed to write config file" >>
FileStepFaults == <<"config_dir", "create_dir", "serialize", "write">>

\* C18: save_settings stops at its first failing step and returns that step's
\* error.  If finding or creating the directory, serializing or writing fails,
\* the file is not written, no autostart call is made and the registration is
\* unchanged; if only the autostart step fails, the error is returned and the
\* file holds the new settings, which a following load returns.
C18_SaveStopsAtFirstFailure ==
    /\ [](\A s \in pending, F \in SUBSET SaveFaults :
             LET r == save_settings(file, registration, s, F)
                 failing == {i \in 1..4 : FileStepFaults[i] \in F}
             IN  IF failing # {}
                 THEN /\ ~r.ok /\ ~r.wrote /\ r.file = file /\ r.sync = NoSync
                      /\ r.error = FileStepErrors[CHOOSE i \in failing :
                                                     \A k \in failing : i <= k]
                 ELSE /\ r.wrote /\ r.sync.by = "save_settings"
                      /\ r.ok = r.sync.ok /\ r.error = r.sync.error)
    /\ [][SaveStep =>
            IF \E i \in 1..4 : ret'.error = FileStepErrors[i]
            THEN /\ ~ret'.ok
                 /\ file' = file
                 /\ registration' = registration
                 /\ sync' = sync
            ELSE /\ sync'.by = "save_settings" /\ sync'.desired = ret'.value.auto_start
                 /\ ret'.ok = sync'.ok /\ ret'.error = sync'.error
                 /\ ~ret'.ok => registration' = registration
                 /\ file'.exists
                 /\ load_settings(file', {}).ok
                 /\ load_settings(file', {}).value = ret'.value]_vars

\* C18 witness: a save that turns autoStart on failed in enable(): the error was
\* returned, the registration is off, and the file holds the saved settings
C18_Witness ==
    /\ ret.cmd = "save_settings" /\ ~ret.ok
    /\ ret.error = "Failed to enable launch at startup"
    /\ ret.value.auto_start /\ ~registration
    /\ sync.by = "save_settings" /\ sync.call = "enable"
    /\ load_settings(file, {}).ok /\ load_settings(file, {}).value = ret.value

\* a command has made its first call on the window and not yet its last
BetweenCalls ==
    \/ job.cmd = "resize_window" /\ job.pc \in {"inner_size", "set_size", "set_position"}
    \/ job.cmd = "reset_window" /\ job.pc \in {"current_monitor", "set_position"}

\* C17 as claimed: no tray (or hotkey) createOrFocus call runs between the
\* calls of a resize_window or reset_window command.
C17_AsClaimed ==
    ~(/\ BetweenCalls
      /\ last.op = "tray"
      /\ last.trace.calls # <<>>)

\* the pixels of monitor m: origin inclusive, origin + size exclusive
Contains(m, p) ==
    /\ p.x \in m.pos[1]..(m.pos[1] + m.size[1] - 1)
    /\ p.y \in m.pos[2]..(m.pos[2] + m.size[2] - 1)
OnFarEdge(m, p) ==
    p.x = m.pos[1] + m.size[1] \/ p.y = m.pos[2] + m.size[2]

\* C19: with a mouse point and a monitor list, the placement engine uses the
\* first monitor of the list that contains the point and no later one, also
\* when a later one contains the point too; it uses none when none contains
\* it; it moves the window at most once, and exactly once when it has the
\* window's size; and a monitor with the point on its right or bottom edge is
\* not the one used.
C19_FirstMatchOnly ==
    (FoundOrMade /\ ~last.trace.mouse.error /\ last.trace.center # "no_monitors") =>
        LET p == last.trace.mouse
            inside == {i \in 1..Len(monitors) : Contains(monitors[i], p)}
        IN  /\ last.trace.moves <= 1
            /\ last.trace.moves = 1 <=> last.trace.center = "moved"
            /\ last.trace.center \in {"moved", "no_size", "no_match"}
            /\ inside = {} <=> last.trace.center = "no_match"
            /\ inside = {} => last.trace.index = 0
            /\ inside # {} =>
                  /\ last.trace.index \in inside
                  /\ \A k \in inside : last.trace.index <= k
            /\ \A i \in 1..Len(monitors) :
                  OnFarEdge(monitors[i], p) => last.trace.index # i
            /\ last.trace.center = "moved" =>
                  main.pos = Centered(monitors[last.trace.index], main.size)

\* C19 witness: the mouse is inside both monitors of the list (a display and
\* its mirror) and the window was moved once, onto the first
C19_Witness ==
    /\ FoundOrMade
    /\ Len(monitors) = 2
    /\ Contains(monitors[1], last.trace.mouse)
    /\ Contains(monitors[2], last.trace.mouse)
    /\ last.trace.center = "moved"
    /\ last.trace.index = 1 /\ last.trace.moves = 1
    /\ main.pos = Centered(monitors[1], main.size)

\* C20 as claimed: after the placement engine moved the window its top-left
\* is monitor.origin + floor((monitor.size - window.size) / 2) in each axis.
C20_AsClaimed ==
    (FoundOrMade /\ last.trace.center = "moved") =>
        LET M == monitors[last.trace.index]
        IN  /\ main.pos[1] = M.pos[1] + ((M.size[1] - main.size[1]) \div 2)
            /\ main.pos[2] = M.pos[2] + ((M.size[2] - main.size[2]) \div 2)

====
